---- MODULE Spec2Model ----
(***************************************************************************)
(* The workload sequencer of the harness                                   *)
(* (harness/determined/layers/_workload_sequencer.py): the generator       *)
(* WorkloadSequencer.__iter__ with train / validate / checkpoint, the      *)
(* one-shot yield_and_await_response handshake, load_state, and the        *)
(* chief/worker fan-out of make_compatibility_workloads.                   *)
(*                                                                         *)
(* An Optional[...] value is a sequence: <<>> is None, <<x>> is x.         *)
(***************************************************************************)
EXTENDS Integers, Sequences, FiniteSets, TLC

VARIABLES
    env,        \* experiment config and values fixed by __init__ (self.*)
    ops,        \* the searcher's operations, in the order searcher.ops() yields them
    state,      \* self.state, a SavableState
    pc,         \* the generator's position
    stack,      \* frames of the active train / validate / checkpoint calls
    opIdx,      \* index in ops of the `op` of the for loop (0: none taken yet)
    completed,  \* per op: the metrics op.complete() was called with, in order
    inflight,   \* the workload yielded and not yet resumed (Optional)
    out,        \* `out` of yield_and_await_response (Optional response)
    responses,  \* calls of respond() since the last yield
    emitted,    \* every workload yielded so far, in order
    reports,    \* calls made to the training / checkpointing / searcher APIs
    failure,    \* the exception that ended the generator, "none" if none
    should_exit, \* the ShouldExit raised, as "<function>:<cause>"; "" if none was
    wpc,        \* position of the chief in workloads(); "direct" when iterated bare
    fpc,        \* position of each worker in workloads()
    bcast,      \* per worker: broadcast values sent by the chief and not yet received
    gathered,   \* workers whose gather message the chief has not yet consumed
    sent,       \* every value the chief broadcast, in order
    received,   \* per worker: every value its broadcast returned, in order
    snapshot,   \* a persisted get_state() dictionary
    best_validation_before, \* the local of validate() set at line 279 (Optional)
    conv        \* a call of as_batches: its arguments and its outcome

vars == << env, ops, state, pc, stack, opIdx, completed, inflight, out, responses,
           emitted, reports, failure, should_exit, wpc, fpc, bcast, gathered, sent,
           received, snapshot, best_validation_before, conv >>

seqVars == << state, pc, stack, opIdx, completed, inflight, out, responses,
              emitted, reports, failure, should_exit >>
fanVars == << fpc, bcast, gathered, sent, received >>
auxVars == << best_validation_before, conv >>

None == <<>>
Some(x) == <<x>>

Max(a, b) == IF a >= b THEN a ELSE b
Min(a, b) == IF a <= b THEN a ELSE b

\* sys.maxsize.  TLC's integers are 32 bits wide, Python's are unbounded: the
\* value stands for "more batches than any run reaches".
MaxSize == 1073741823

(***************************************************************************)
(* Bounds and input sets                                                   *)
(***************************************************************************)
NumFollowers == 2
MaxResponses == 2
MaxSnapshotBatch == 2

Followers == 1..NumFollowers

TrialIds == {1, 2}
Metrics == {1, 2}
ExitReasons == {"None", "INVALID_HP", "USER_CANCELED"}
NumInputs == {None, Some(4)}

Length(u, n) == [unit |-> u, length |-> n]

\* min_validation_period / min_checkpoint_period of the experiment config
PeriodSpecs == {Length("batches", 0), Length("batches", 2), Length("batches", 3)}
SchedulingUnits == {0, 2, 10}
CkptPolicies == {"best", "all", "none"}

\* searcher operation feeds; with global_batch_size 2 and records_per_epoch 4,
\* 5 records are 2 batches and 2 epochs are 4
OpFeeds == { <<>>,
             << Length("BATCHES", 3) >>,
             << Length("BATCHES", 1), Length("BATCHES", 4) >>,
             << Length("BATCHES", 2), Length("BATCHES", 2) >>,
             << Length("RECORDS", 5), Length("EPOCHS", 2) >> }

\* the end-to-end scenarios: one operation of 10 batches, scheduling unit 10,
\* no validation period, the checkpoint period disabled or 5 batches
ScenarioPeriods == {Length("batches", 0), Length("batches", 5)}
ScenarioFeeds == { << Length("BATCHES", 10) >> }

(***************************************************************************)
(* SavableState, get_state, load_state                                     *)
(***************************************************************************)
SavableState(trial_id, last_ckpt, latest_batch, total_records, step_id, last_val) ==
    [trial_id |-> trial_id, last_ckpt |-> last_ckpt, latest_batch |-> latest_batch,
     total_records |-> total_records, step_id |-> step_id, last_val |-> last_val]

\* SavableState(trial_id=self._trial_id): every counter at its default
FreshState(trial_id) == SavableState(trial_id, 0, 0, Some(0), 0, 0)

\* vars(self.state): the dictionary of the state's attributes
get_state(st) ==
    [trial_id |-> st.trial_id, last_ckpt |-> st.last_ckpt,
     latest_batch |-> st.latest_batch, total_records |-> st.total_records,
     step_id |-> st.step_id, last_val |-> st.last_val]

\* mutant of load_state: the dictionary of another trial is loaded too
load_state_any_trial(self, st, d) ==
    LET loaded == SavableState(d.trial_id, d.last_ckpt, d.latest_batch,
                               d.total_records, d.step_id, d.last_val)
    IN  IF Some(loaded.latest_batch) = self.val_from_previous_run
        THEN [loaded EXCEPT !.last_val = loaded.latest_batch]
        ELSE loaded

\* load_state: the state self.state holds after load_state(d), st before it
load_state(self, st, d) ==
    IF d.trial_id # self.trial_id
    THEN st
    ELSE LET loaded == SavableState(d.trial_id, d.last_ckpt, d.latest_batch,
                                    d.total_records, d.step_id, d.last_val)
         IN  IF Some(loaded.latest_batch) = self.val_from_previous_run
             THEN [loaded EXCEPT !.last_val = loaded.latest_batch]
             ELSE loaded

(***************************************************************************)
(* as_batches and the quantities the loop tests                            *)
(***************************************************************************)
NumSet(batches, records, epochs) ==
    (IF batches # None THEN 1 ELSE 0) + (IF records # None THEN 1 ELSE 0)
        + (IF epochs # None THEN 1 ELSE 0)

\* the calls of as_batches that raise (ValueError, or a failed check.gt /
\* check.is_instance)
as_batches_raises(self, batches, records, epochs) ==
    \/ NumSet(batches, records, epochs) # 1
    \/ /\ batches = None
       /\ records # None
       /\ self.global_batch_size <= 0
    \/ /\ batches = None
       /\ records = None
       /\ epochs # None
       /\ (self.records_per_epoch = None \/ self.global_batch_size <= 0)

\* the exception of a call that raises: ValueError at line 154, a failed
\* check.is_instance / check.gt at lines 158-163
as_batches_error(self, batches, records, epochs) ==
    IF NumSet(batches, records, epochs) # 1 THEN "ValueError" ELSE "CheckFailedError"

\* mutant of as_batches: the quotient is not raised to 1
as_batches_unclamped(self, batches, records, epochs) ==
    IF batches # None
    THEN batches[1]
    ELSE IF records # None
    THEN records[1] \div self.global_batch_size
    ELSE (epochs[1] * self.records_per_epoch[1]) \div self.global_batch_size

\* the value as_batches returns when it does not raise
as_batches(self, batches, records, epochs) ==
    IF batches # None
    THEN batches[1]
    ELSE IF records # None
    THEN Max(records[1] \div self.global_batch_size, 1)
    ELSE Max((epochs[1] * self.records_per_epoch[1]) \div self.global_batch_size, 1)

\* a call of as_batches: its keyword arguments, the value it returned and the
\* exception it raised ("" if none)
Call(batches, records, epochs, returned, raised) ==
    [batches |-> batches, records |-> records, epochs |-> epochs,
     returned |-> returned, raised |-> raised]

NoCall == Call(None, None, None, None, "")

Arg(len, unit) == IF len.unit = unit THEN Some(len.length) ELSE None

\* __init__, lines 116-125: a period below 1 disables the cadence
PeriodBatches(self, len) ==
    LET b == as_batches(self, Arg(len, "batches"), Arg(len, "records"), Arg(len, "epochs"))
    IN  IF b < 1 THEN MaxSize ELSE b

PeriodRaises(self, len) ==
    as_batches_raises(self, Arg(len, "batches"), Arg(len, "records"), Arg(len, "epochs"))

\* mutant of batches_until_val: the validation comes one batch late
batches_until_val_late(self, st) ==
    st.last_val + self.min_val_period_batches - st.latest_batch + 1

batches_until_val(self, st) ==
    st.last_val + self.min_val_period_batches - st.latest_batch

\* mutant of batches_until_ckpt: the period counted from batch 0
batches_until_ckpt_from_zero(self, st) ==
    self.min_ckpt_period_batches - st.latest_batch

batches_until_ckpt(self, st) ==
    st.last_ckpt + self.min_ckpt_period_batches - st.latest_batch

op_raises(self, op) ==
    as_batches_raises(self, Arg(op, "BATCHES"), Arg(op, "RECORDS"), Arg(op, "EPOCHS"))

batches_until_op_complete(self, st, op) ==
    as_batches(self, Arg(op, "BATCHES"), Arg(op, "RECORDS"), Arg(op, "EPOCHS"))
        - st.latest_batch

\* mutant of checkpoint_is_current: compares with the last validation
checkpoint_is_current_val(st) == st.last_ckpt = st.last_val

checkpoint_is_current(st) == st.last_ckpt = st.latest_batch

validation_is_current(st) == st.last_val = st.latest_batch

\* mutant of is_best_validation: a validation equal to the best counts
is_best_validation_or_equal(self, now, before) ==
    IF before = None
    THEN TRUE
    ELSE IF self.smaller_is_better THEN now <= before[1] ELSE now >= before[1]

is_best_validation(self, now, before) ==
    IF before = None
    THEN TRUE
    ELSE IF self.smaller_is_better THEN now < before[1] ELSE now > before[1]

\* mutant of train_result: latest_batch assigned instead of increased
train_result_assigned(st, num_batches, num_inputs) ==
    [st EXCEPT !.latest_batch = num_batches,
               !.total_records = IF num_inputs = None \/ @ = None
                                 THEN None
                                 ELSE Some(@[1] + num_inputs[1]),
               !.step_id = @ + 1]

\* lines 200-205: the counters after a train step of num_batches batches
train_result(st, num_batches, num_inputs) ==
    [st EXCEPT !.latest_batch = @ + num_batches,
               !.total_records = IF num_inputs = None \/ @ = None
                                 THEN None
                                 ELSE Some(@[1] + num_inputs[1]),
               !.step_id = @ + 1]

\* line 281
mark_validated(st) == [st EXCEPT !.last_val = st.latest_batch]

\* line 304
mark_checkpointed(st) == [st EXCEPT !.last_ckpt = st.latest_batch]

\* mutant of train_num_batches: the cadences are not looked at
train_num_batches_no_cadence(self, st, op) ==
    Max(1, Min(batches_until_op_complete(self, st, op), self.scheduling_unit))

\* mutant of train_num_batches: the end of the operation is not looked at
train_num_batches_past_op(self, st, op) ==
    Max(1, Min(Min(batches_until_ckpt(self, st), batches_until_val(self, st)),
               self.scheduling_unit))

\* the num_batches argument of the train call, lines 395-403
train_num_batches(self, st, op) ==
    Max(1, Min(Min(batches_until_ckpt(self, st), batches_until_val(self, st)),
               Min(batches_until_op_complete(self, st, op), self.scheduling_unit)))

(***************************************************************************)
(* Workloads and responses                                                 *)
(***************************************************************************)
Workload(kind, s_id, num_batches, total_batches_processed) ==
    [kind |-> kind, s_id |-> s_id, num_batches |-> num_batches,
     total_batches_processed |-> total_batches_processed]

Response(skipped, exited_reason, num_inputs, metric) ==
    [skipped |-> skipped, exited_reason |-> exited_reason,
     num_inputs |-> num_inputs, metric |-> metric]

\* what an executor may answer to a workload of the given kind; a step that
\* exits with INVALID_HP has no metrics
ResponsesFor(kind) ==
    {Response(TRUE, "None", None, 0)} \cup
    CASE kind = "RUN_STEP" ->
            {Response(FALSE, "None", n, 0) : n \in NumInputs}
            \cup {Response(FALSE, "INVALID_HP", None, 0),
                  Response(FALSE, "USER_CANCELED", Some(4), 0)}
      [] kind = "COMPUTE_VALIDATION_METRICS" ->
            {Response(FALSE, e, None, m) : e \in ExitReasons, m \in Metrics}
      [] OTHER ->
            {Response(FALSE, e, None, 0) : e \in ExitReasons}

(***************************************************************************)
(* The generator: calls, returns, exceptions                               *)
(***************************************************************************)
CurOp == ops[opIdx]

Frame(fn, op, num_batches, already_exiting, ret) ==
    [fn |-> fn, op |-> op, num_batches |-> num_batches,
     already_exiting |-> already_exiting, ret |-> ret]

\* yield wkld, respond (line 36), with `out` None
Yield(wkld, at) ==
    /\ pc' = at
    /\ inflight' = Some(wkld)
    /\ out' = None
    /\ responses' = 0
    /\ emitted' = Append(emitted, wkld)
    /\ UNCHANGED should_exit

\* train(num_batches, op) up to its yield, lines 175-186
CallTrain(st, stk, num_batches, ret) ==
    /\ state' = st
    /\ stack' = << Frame("train", Some(opIdx), num_batches, FALSE, ret) >> \o stk
    /\ Yield(Workload("RUN_STEP", st.step_id + 1, num_batches, st.latest_batch),
             "train_yield")

\* validate(op) up to its yield, lines 237-248; op is None or Some(index)
CallValidate(st, stk, op, ret) ==
    /\ state' = st
    /\ stack' = << Frame("validate", op, 0, FALSE, ret) >> \o stk
    /\ Yield(Workload("COMPUTE_VALIDATION_METRICS", st.step_id, 0, st.latest_batch),
             "validate_yield")

\* mutant of CallCheckpoint: last_ckpt is not set before the yield
CallCheckpointUnmarked(st, stk, already_exiting, ret) ==
    /\ state' = st
    /\ stack' = << Frame("checkpoint", None, 0, already_exiting, ret) >> \o stk
    /\ Yield(Workload("CHECKPOINT_MODEL", st.step_id, 0, st.latest_batch),
             "checkpoint_yield")

\* checkpoint(already_exiting) up to its yield, lines 301-314: last_ckpt is
\* set before the workload is built and yielded
CallCheckpoint(st, stk, already_exiting, ret) ==
    /\ state' = mark_checkpointed(st)
    /\ stack' = << Frame("checkpoint", None, 0, already_exiting, ret) >> \o stk
    /\ Yield(Workload("CHECKPOINT_MODEL", st.step_id, 0, st.latest_batch),
             "checkpoint_yield")

\* the active call returns to its caller
Return(st, stk) ==
    /\ state' = st
    /\ pc' = Head(stk).ret
    /\ stack' = Tail(stk)
    /\ inflight' = None
    /\ out' = None
    /\ UNCHANGED << responses, emitted, should_exit >>

\* raise ShouldExit(): every call inside the try block unwinds to line 417
RaiseShouldExit(st, cause) ==
    /\ state' = st
    /\ pc' = "except"
    /\ should_exit' = cause
    /\ stack' = << >>
    /\ inflight' = None
    /\ out' = None
    /\ UNCHANGED << responses, emitted >>

\* the assertions of lines 32, 38 and 415
SkippedResponse == "AssertionError: Skipped response"
NoResponse == "AssertionError: no response"
OpNeverCompleted == "AssertionError: op was never completed"

\* an exception other than ShouldExit leaves the generator through the
\* finally block
Crash(why) ==
    /\ pc' = "crashed"
    /\ failure' = why
    /\ stack' = << >>
    /\ inflight' = None
    /\ out' = None
    /\ UNCHANGED << state, opIdx, completed, responses, emitted, reports, should_exit >>

\* who may call respond() and next() on the sequencer: its consumer when it
\* is iterated bare, the chief's workloads() otherwise
MayRespond == wpc \in {"direct", "yield"}
MayResume == wpc \in {"direct", "resume"}
AfterResume == IF wpc = "direct" THEN "direct" ELSE "next"
MayRun == wpc \in {"direct", "next"}

(***************************************************************************)
(* __iter__                                                                *)
(***************************************************************************)
\* mutant of IterStart: a validation of a previous run is not looked at
IterStartAnyHistory ==
    /\ pc = "start"
    /\ MayRun
    /\ IF /\ env.want_initial_val
          /\ state.latest_batch = 0
       THEN CallValidate(state, stack, None, "next_op")
       ELSE /\ pc' = "next_op"
            /\ UNCHANGED << state, stack, inflight, out, responses, emitted, should_exit >>
    /\ UNCHANGED << env, ops, auxVars, opIdx, completed, reports, failure, wpc, fanVars, snapshot >>

\* lines 362-375: the first next(); the step-zero validation
IterStart ==
    /\ pc = "start"
    /\ MayRun
    /\ IF /\ env.want_initial_val
          /\ env.val_from_previous_run = None
          /\ state.latest_batch = 0
       THEN CallValidate(state, stack, None, "next_op")
       ELSE /\ pc' = "next_op"
            /\ UNCHANGED << state, stack, inflight, out, responses, emitted, should_exit >>
    /\ UNCHANGED << env, ops, auxVars, opIdx, completed, reports, failure, wpc, fanVars, snapshot >>

\* line 377: for op in searcher.ops(); the finally block when the feed ends
NextOp ==
    /\ pc = "next_op"
    /\ MayRun
    /\ IF opIdx < Len(ops)
       THEN /\ opIdx' = opIdx + 1
            /\ pc' = "while"
       ELSE /\ pc' = "done"
            /\ UNCHANGED opIdx
    /\ UNCHANGED << env, ops, auxVars, state, stack, completed, inflight, out, responses,
                    emitted, reports, failure, should_exit, wpc, fanVars, snapshot >>

\* line 378: while self.batches_until_op_complete(op) > 0
While ==
    /\ pc = "while"
    /\ MayRun
    /\ IF op_raises(env, CurOp)
       THEN Crash("ValueError")
       ELSE /\ pc' = IF batches_until_op_complete(env, state, CurOp) > 0
                     THEN "loop_val"
                     ELSE "op_done_ckpt"
            /\ UNCHANGED << state, stack, opIdx, completed, inflight, out, responses,
                            emitted, reports, failure, should_exit >>
    /\ UNCHANGED << env, ops, auxVars, wpc, fanVars, snapshot >>

\* lines 386-387: pause training to validate?
LoopVal ==
    /\ pc = "loop_val"
    /\ MayRun
    /\ IF batches_until_val(env, state) < 1
       THEN CallValidate(state, stack, Some(opIdx), "loop_ckpt")
       ELSE /\ pc' = "loop_ckpt"
            /\ UNCHANGED << state, stack, inflight, out, responses, emitted, should_exit >>
    /\ UNCHANGED << env, ops, auxVars, opIdx, completed, reports, failure, wpc, fanVars, snapshot >>

\* lines 390-391: pause training to checkpoint?
LoopCkpt ==
    /\ pc = "loop_ckpt"
    /\ MayRun
    /\ IF batches_until_ckpt(env, state) < 1
       THEN CallCheckpoint(state, stack, FALSE, "loop_train")
       ELSE /\ pc' = "loop_train"
            /\ UNCHANGED << state, stack, inflight, out, responses, emitted, should_exit >>
    /\ UNCHANGED << env, ops, auxVars, opIdx, completed, reports, failure, wpc, fanVars, snapshot >>

\* lines 394-405: do some training
LoopTrain ==
    /\ pc = "loop_train"
    /\ MayRun
    /\ CallTrain(state, stack, train_num_batches(env, state, CurOp), "while")
    /\ UNCHANGED << env, ops, auxVars, opIdx, completed, reports, failure, wpc, fanVars, snapshot >>

\* mutant of OpDoneCkpt: a checkpoint whether or not it is current
OpDoneCkptAlways ==
    /\ pc = "op_done_ckpt"
    /\ MayRun
    /\ CallCheckpoint(state, stack, FALSE, "op_done_val")
    /\ UNCHANGED << env, ops, auxVars, opIdx, completed, reports, failure, wpc, fanVars, snapshot >>

\* mutant of OpDoneCkpt: no checkpoint before the searcher validation
OpDoneCkptNever ==
    /\ pc = "op_done_ckpt"
    /\ MayRun
    /\ pc' = "op_done_val"
    /\ UNCHANGED << state, stack, inflight, out, responses, emitted, should_exit >>
    /\ UNCHANGED << env, ops, auxVars, opIdx, completed, reports, failure, wpc, fanVars, snapshot >>

\* lines 409-410
OpDoneCkpt ==
    /\ pc = "op_done_ckpt"
    /\ MayRun
    /\ IF ~checkpoint_is_current(state)
       THEN CallCheckpoint(state, stack, FALSE, "op_done_val")
       ELSE /\ pc' = "op_done_val"
            /\ UNCHANGED << state, stack, inflight, out, responses, emitted, should_exit >>
    /\ UNCHANGED << env, ops, auxVars, opIdx, completed, reports, failure, wpc, fanVars, snapshot >>

\* lines 412-413
OpDoneVal ==
    /\ pc = "op_done_val"
    /\ MayRun
    /\ IF ~validation_is_current(state)
       THEN CallValidate(state, stack, Some(opIdx), "op_assert")
       ELSE /\ pc' = "op_assert"
            /\ UNCHANGED << state, stack, inflight, out, responses, emitted, should_exit >>
    /\ UNCHANGED << env, ops, auxVars, opIdx, completed, reports, failure, wpc, fanVars, snapshot >>

\* line 415: assert op._completed, "logic error; op was never completed"
OpAssert ==
    /\ pc = "op_assert"
    /\ MayRun
    /\ IF completed[opIdx] # << >>
       THEN /\ pc' = "next_op"
            /\ UNCHANGED << state, stack, opIdx, completed, inflight, out, responses,
                            emitted, reports, failure, should_exit >>
       ELSE Crash(OpNeverCompleted)
    /\ UNCHANGED << env, ops, auxVars, wpc, fanVars, snapshot >>

\* mutant of Except: the final checkpoint is taken even when current
ExceptAlways ==
    /\ pc = "except"
    /\ MayRun
    /\ CallCheckpoint(state, stack, TRUE, "done")
    /\ UNCHANGED << env, ops, auxVars, opIdx, completed, reports, failure, wpc, fanVars, snapshot >>

\* lines 417-423: except ShouldExit, then the finally block
Except ==
    /\ pc = "except"
    /\ MayRun
    /\ IF ~checkpoint_is_current(state)
       THEN CallCheckpoint(state, stack, TRUE, "done")
       ELSE /\ pc' = "done"
            /\ UNCHANGED << state, stack, inflight, out, responses, emitted, should_exit >>
    /\ UNCHANGED << env, ops, auxVars, opIdx, completed, reports, failure, wpc, fanVars, snapshot >>

(***************************************************************************)
(* The response function and the code after each yield                     *)
(***************************************************************************)
YieldPcs == {"train_yield", "validate_yield", "checkpoint_yield"}

\* mutant of Respond: a second response fails an assertion
RespondOnce(r) ==
    /\ pc \in YieldPcs
    /\ MayRespond
    /\ responses < MaxResponses
    /\ r \in ResponsesFor(inflight[1].kind)
    /\ IF r.skipped
       THEN Crash(SkippedResponse)
       ELSE IF out # None
       THEN Crash("AssertionError: already answered")
       ELSE /\ out' = Some(r)
            /\ responses' = responses + 1
            /\ UNCHANGED << state, pc, stack, opIdx, completed, inflight, emitted,
                            reports, failure, should_exit >>
    /\ UNCHANGED << env, ops, auxVars, wpc, fanVars, snapshot >>

\* respond(r), lines 31-34, called by whoever executes the yielded workload
Respond(r) ==
    /\ pc \in YieldPcs
    /\ MayRespond
    /\ responses < MaxResponses
    /\ r \in ResponsesFor(inflight[1].kind)
    /\ IF r.skipped
       THEN Crash(SkippedResponse)
       ELSE /\ out' = Some(r)
            /\ responses' = responses + 1
            /\ UNCHANGED << state, pc, stack, opIdx, completed, inflight, emitted,
                            reports, failure, should_exit >>
    /\ UNCHANGED << env, ops, auxVars, wpc, fanVars, snapshot >>

\* check_for_preemption, lines 168-171, as the tail of a call: the poll is
\* logged, then ShouldExit or the return to the caller
PollAndReturn(st, stk, log, preempt) ==
    /\ reports' = log \o << "should_preempt" >>
    /\ IF preempt
       THEN RaiseShouldExit(st, Head(stk).fn \o ":preempted")
       ELSE Return(st, stk)

\* mutant of TrainResume: USER_CANCELED exits before the step is recorded
TrainResumeCancelEarly(preempt) ==
    /\ pc = "train_yield"
    /\ MayResume
    /\ wpc' = AfterResume
    /\ IF out = None
       THEN Crash(NoResponse)
       ELSE LET response == out[1]
                num_batches == Head(stack).num_batches
                trained == train_result(state, num_batches, response.num_inputs)
                log == reports \o << "report_training_metrics", "report_progress" >>
            IN  /\ UNCHANGED << opIdx, completed, failure >>
                /\ IF response.exited_reason = "INVALID_HP"
                   THEN /\ reports' = Append(reports, "report_early_exit")
                        /\ RaiseShouldExit(state, "train:INVALID_HP")
                   ELSE IF response.exited_reason = "USER_CANCELED"
                   THEN /\ reports' = reports
                        /\ RaiseShouldExit(state, "train:USER_CANCELED")
                   ELSE PollAndReturn(trained, stack, log, preempt)
    /\ UNCHANGED << env, ops, auxVars, fanVars, snapshot >>

\* train after its yield, lines 38-40 and 188-227.  The unit of op is one of
\* the three line 214-219 report progress for: any other made line 378 raise.
TrainResume(preempt) ==
    /\ pc = "train_yield"
    /\ MayResume
    /\ wpc' = AfterResume
    /\ IF out = None
       THEN Crash(NoResponse)
       ELSE LET response == out[1]
                num_batches == Head(stack).num_batches
                trained == train_result(state, num_batches, response.num_inputs)
                log == reports \o << "report_training_metrics", "report_progress" >>
            IN  /\ UNCHANGED << opIdx, completed, failure >>
                /\ IF response.exited_reason = "INVALID_HP"
                   THEN /\ reports' = Append(reports, "report_early_exit")
                        /\ RaiseShouldExit(state, "train:INVALID_HP")
                   ELSE IF response.exited_reason = "USER_CANCELED"
                   THEN /\ reports' = log
                        /\ RaiseShouldExit(trained, "train:USER_CANCELED")
                   ELSE PollAndReturn(trained, stack, log, preempt)
    /\ UNCHANGED << env, ops, auxVars, fanVars, snapshot >>

\* validate after its yield, lines 38-40 and 250-298; before is what
\* get_experiment_best_validation() answers
ValidateResume(preempt, before) ==
    /\ pc = "validate_yield"
    /\ MayResume
    /\ wpc' = AfterResume
    /\ IF out = None
       THEN Crash(NoResponse) /\ UNCHANGED best_validation_before
       ELSE LET response == out[1]
                op == Head(stack).op
                searcher_metric == response.metric
                completes == /\ op # None
                             /\ batches_until_op_complete(env, state, ops[op[1]]) < 1
                asks_best == env.ckpt_policy = "best" /\ ~checkpoint_is_current(state)
                validated == mark_validated(state)
                log == reports
                       \o (IF completes THEN << "complete" >> ELSE << >>)
                       \o (IF asks_best THEN << "get_experiment_best_validation" >>
                                        ELSE << >>)
                       \o << "report_validation_metrics" >>
            IN  /\ UNCHANGED << opIdx, failure >>
                /\ IF response.exited_reason = "INVALID_HP"
                   THEN /\ reports' = Append(reports, "report_early_exit")
                        /\ UNCHANGED << completed, best_validation_before >>
                        /\ RaiseShouldExit(state, "validate:INVALID_HP")
                   ELSE /\ best_validation_before' = IF asks_best
                                                     THEN before
                                                     ELSE best_validation_before
                        /\ completed' = IF completes
                                        THEN [completed EXCEPT
                                                 ![op[1]] = Append(@, searcher_metric)]
                                        ELSE completed
                        /\ IF response.exited_reason = "USER_CANCELED"
                           THEN /\ reports' = log
                                /\ RaiseShouldExit(validated, "validate:USER_CANCELED")
                           ELSE IF /\ ~checkpoint_is_current(validated)
                                   /\ \/ env.ckpt_policy = "all"
                                      \/ /\ env.ckpt_policy = "best"
                                         /\ is_best_validation(env, searcher_metric,
                                                               best_validation_before')
                           THEN /\ reports' = log
                                /\ CallCheckpoint(validated, stack, FALSE, "validate_298")
                           ELSE PollAndReturn(validated, stack, log, preempt)
    /\ UNCHANGED << env, ops, conv, fanVars, snapshot >>

\* line 298: validate's check_for_preemption after its nested checkpoint
ValidateAfterCheckpoint(preempt) ==
    /\ pc = "validate_298"
    /\ MayRun
    /\ PollAndReturn(state, stack, reports, preempt)
    /\ UNCHANGED << env, ops, auxVars, opIdx, completed, failure, wpc, fanVars, snapshot >>

\* mutant of CheckpointResume: already_exiting is not looked at
CheckpointResumeChecked(preempt) ==
    /\ pc = "checkpoint_yield"
    /\ MayResume
    /\ wpc' = AfterResume
    /\ IF out = None
       THEN Crash(NoResponse)
       ELSE LET response == out[1]
                log == Append(reports, "report_checkpoint")
            IN  /\ UNCHANGED << opIdx, completed, failure >>
                /\ IF response.exited_reason = "INVALID_HP"
                   THEN /\ reports' = Append(log, "report_early_exit")
                        /\ RaiseShouldExit(state, "checkpoint:INVALID_HP")
                   ELSE IF response.exited_reason # "None"
                   THEN /\ reports' = log
                        /\ RaiseShouldExit(state, "checkpoint:" \o response.exited_reason)
                   ELSE PollAndReturn(state, stack, log, preempt)
    /\ UNCHANGED << env, ops, auxVars, fanVars, snapshot >>

\* checkpoint after its yield, lines 38-40 and 316-337
CheckpointResume(preempt) ==
    /\ pc = "checkpoint_yield"
    /\ MayResume
    /\ wpc' = AfterResume
    /\ IF out = None
       THEN Crash(NoResponse)
       ELSE LET response == out[1]
                already_exiting == Head(stack).already_exiting
                log == Append(reports, "report_checkpoint")
            IN  /\ UNCHANGED << opIdx, completed, failure >>
                /\ IF already_exiting
                   THEN /\ reports' = log
                        /\ Return(state, stack)
                   ELSE IF response.exited_reason = "INVALID_HP"
                   THEN /\ reports' = Append(log, "report_early_exit")
                        /\ RaiseShouldExit(state, "checkpoint:INVALID_HP")
                   ELSE IF response.exited_reason # "None"
                   THEN /\ reports' = log
                        /\ RaiseShouldExit(state, "checkpoint:" \o response.exited_reason)
                   ELSE PollAndReturn(state, stack, log, preempt)
    /\ UNCHANGED << env, ops, auxVars, fanVars, snapshot >>

(***************************************************************************)
(* The sequencer iterated by one consumer                                  *)
(***************************************************************************)
\* the experiment configurations __init__ accepts, less the combinations that
\* only repeat another one: smaller_is_better is read under policy "best"
\* alone, val_from_previous_run (before load_state) with an initial
\* validation alone; the initial validation is tried with one scheduling unit
ConfigsOf(periods, ckptPeriods, units) ==
    { c \in [ trial_id : {1},
              val_from_previous_run : {None, Some(0)},
              want_initial_val : BOOLEAN,
              ckpt_policy : CkptPolicies,
              smaller_is_better : BOOLEAN,
              global_batch_size : {2},
              records_per_epoch : {Some(4)},
              min_validation_period : periods,
              min_checkpoint_period : ckptPeriods,
              scheduling_unit : units ] :
        /\ ~PeriodRaises(c, c.min_validation_period)
        /\ ~PeriodRaises(c, c.min_checkpoint_period)
        /\ (c.ckpt_policy # "best" => c.smaller_is_better)
        /\ (~c.want_initial_val => c.val_from_previous_run = None)
        /\ (c.want_initial_val => c.scheduling_unit = 10) }

Configs == ConfigsOf(PeriodSpecs, PeriodSpecs, SchedulingUnits)

ScenarioConfigs == ConfigsOf({Length("batches", 0)}, ScenarioPeriods, {10})

\* the runs checked: a configuration and an operation feed
Runs == (Configs \X OpFeeds) \cup (ScenarioConfigs \X ScenarioFeeds)

\* __init__, lines 93-125
MakeEnv(c) ==
    [ trial_id |-> c.trial_id,
      val_from_previous_run |-> c.val_from_previous_run,
      want_initial_val |-> c.want_initial_val,
      ckpt_policy |-> c.ckpt_policy,
      smaller_is_better |-> c.smaller_is_better,
      global_batch_size |-> c.global_batch_size,
      records_per_epoch |-> c.records_per_epoch,
      min_val_period_batches |-> PeriodBatches(c, c.min_validation_period),
      min_ckpt_period_batches |-> PeriodBatches(c, c.min_checkpoint_period),
      scheduling_unit |-> c.scheduling_unit ]

InitSequencer(runs) ==
    /\ \E run \in runs : env = MakeEnv(run[1]) /\ ops = run[2]
    /\ state = FreshState(env.trial_id)
    /\ pc = "start"
    /\ stack = << >>
    /\ opIdx = 0
    /\ completed = [i \in 1..Len(ops) |-> << >>]
    /\ inflight = None
    /\ out = None
    /\ responses = 0
    /\ emitted = << >>
    /\ reports = << >>
    /\ failure = "none"
    /\ should_exit = ""
    /\ snapshot = get_state(state)
    /\ best_validation_before = None
    /\ conv = NoCall

Init ==
    /\ InitSequencer(Runs)
    /\ wpc = "direct"
    /\ fpc = [f \in Followers |-> "off"]
    /\ bcast = [f \in Followers |-> << >>]
    /\ gathered = {}
    /\ sent = << >>
    /\ received = [f \in Followers |-> << >>]

Sequencer ==
    \/ IterStart
    \/ NextOp
    \/ While
    \/ LoopVal
    \/ LoopCkpt
    \/ LoopTrain
    \/ OpDoneCkpt
    \/ OpDoneVal
    \/ OpAssert
    \/ Except
    \/ \E preempt \in BOOLEAN : TrainResume(preempt)
    \/ \E preempt \in BOOLEAN, before \in {None} \cup {Some(m) : m \in Metrics} :
            ValidateResume(preempt, before)
    \/ \E preempt \in BOOLEAN : ValidateAfterCheckpoint(preempt)
    \/ \E preempt \in BOOLEAN : CheckpointResume(preempt)

Next ==
    \/ Sequencer
    \/ \E r \in ResponsesFor("RUN_STEP") \cup ResponsesFor("COMPUTE_VALIDATION_METRICS")
                    \cup ResponsesFor("CHECKPOINT_MODEL") : Respond(r)

Spec == Init /\ [][Next]_vars

(***************************************************************************)
(* make_compatibility_workloads: the chief broadcasts every workload of    *)
(* the sequencer, the workers execute what they receive.  _zmq_broadcast   *)
(* delivers the chief's value to every worker in order; _zmq_gather        *)
(* returns on the chief once every worker has called it.                   *)
(***************************************************************************)
\* dist._zmq_broadcast(v) on the chief
ZmqBroadcast(v) ==
    /\ bcast' = [f \in Followers |-> Append(bcast[f], v)]
    /\ sent' = Append(sent, v)

\* dist._zmq_gather(None) on a worker
ZmqGatherSend(f) == gathered' = gathered \cup {f}

\* dist._zmq_gather(None) on the chief returns: every worker has called it
ZmqGatherReturns == gathered = Followers /\ gathered' = {}

\* dist._zmq_broadcast(None) on a worker returns the oldest undelivered value
ZmqBroadcastReturns(f, v) ==
    /\ bcast[f] # << >>
    /\ v = Head(bcast[f])
    /\ bcast' = [bcast EXCEPT ![f] = Tail(@)]

\* lines 445-449: the sequencer yielded; distribute to peers, yield
LeaderBroadcast ==
    /\ wpc = "next"
    /\ pc \in YieldPcs
    /\ ZmqBroadcast(inflight)
    /\ wpc' = "yield"
    /\ UNCHANGED << env, ops, auxVars, seqVars, fpc, gathered, received, snapshot >>

\* line 449-451: the chief's consumer calls next(); wait for peers
LeaderNext ==
    /\ wpc = "yield"
    /\ wpc' = "gather"
    /\ UNCHANGED << env, ops, auxVars, seqVars, fanVars, snapshot >>

\* mutant of LeaderGather: the chief does not wait for its peers
LeaderGatherNoWait ==
    /\ wpc = "gather"
    /\ gathered' = {}
    /\ wpc' = "resume"
    /\ UNCHANGED << env, ops, auxVars, seqVars, fpc, bcast, sent, received, snapshot >>

\* line 451 returns, line 445 is about to call next() on the sequencer
LeaderGather ==
    /\ wpc = "gather"
    /\ ZmqGatherReturns
    /\ wpc' = "resume"
    /\ UNCHANGED << env, ops, auxVars, seqVars, fpc, bcast, sent, received, snapshot >>

\* mutant of LeaderSentinel: the chief returns without the last broadcast
LeaderSentinelSilent ==
    /\ wpc = "next"
    /\ pc = "done"
    /\ wpc' = "end"
    /\ UNCHANGED << env, ops, auxVars, seqVars, fanVars, snapshot >>

\* line 453: the sequencer is exhausted; break the workers out of their loop
LeaderSentinel ==
    /\ wpc = "next"
    /\ pc = "done"
    /\ ZmqBroadcast(None)
    /\ wpc' = "end"
    /\ UNCHANGED << env, ops, auxVars, seqVars, fpc, gathered, received, snapshot >>

\* mutant of FollowerRecv: None does not end the worker's loop
FollowerRecvKeepsWaiting(f) ==
    /\ fpc[f] = "recv"
    /\ bcast[f] # << >>
    /\ LET wkld == Head(bcast[f])
       IN  /\ ZmqBroadcastReturns(f, wkld)
           /\ received' = [received EXCEPT ![f] = Append(@, wkld)]
           /\ fpc' = [fpc EXCEPT ![f] = IF wkld = None THEN "recv" ELSE "yield"]
    /\ UNCHANGED << env, ops, auxVars, seqVars, wpc, gathered, sent, snapshot >>

\* lines 457-461: a worker's broadcast returns; None ends its loop, a
\* workload is yielded
FollowerRecv(f) ==
    /\ fpc[f] = "recv"
    /\ bcast[f] # << >>
    /\ LET wkld == Head(bcast[f])
       IN  /\ ZmqBroadcastReturns(f, wkld)
           /\ received' = [received EXCEPT ![f] = Append(@, wkld)]
           /\ fpc' = [fpc EXCEPT ![f] = IF wkld = None THEN "end" ELSE "yield"]
    /\ UNCHANGED << env, ops, auxVars, seqVars, wpc, gathered, sent, snapshot >>

\* lines 461-463 and 457: the worker's consumer calls next(); tell the chief
\* we finished, wait for its next broadcast
FollowerNext(f) ==
    /\ fpc[f] = "yield"
    /\ ZmqGatherSend(f)
    /\ fpc' = [fpc EXCEPT ![f] = "recv"]
    /\ UNCHANGED << env, ops, auxVars, seqVars, wpc, bcast, sent, received, snapshot >>

FanPeriods == {Length("batches", 0), Length("batches", 2)}
FanFeeds == { <<>>,
              << Length("BATCHES", 1), Length("BATCHES", 4) >>,
              << Length("BATCHES", 2), Length("BATCHES", 2) >> }
FanRuns == ConfigsOf(FanPeriods, {Length("batches", 0)}, {10}) \X FanFeeds

InitFanout ==
    /\ InitSequencer(FanRuns)
    /\ wpc = "next"
    /\ fpc = [f \in Followers |-> "recv"]
    /\ bcast = [f \in Followers |-> << >>]
    /\ gathered = {}
    /\ sent = << >>
    /\ received = [f \in Followers |-> << >>]

NextFanout ==
    \/ Next
    \/ LeaderBroadcast
    \/ LeaderNext
    \/ LeaderGather
    \/ LeaderSentinel
    \/ \E f \in Followers : FollowerRecv(f)
    \/ \E f \in Followers : FollowerNext(f)

SpecFanout == InitFanout /\ [][NextFanout]_vars

\* every process keeps running: the chief goes on to line 453 once its loop
\* ends, a worker's _zmq_broadcast returns once a value is there for it
SpecFanoutLive ==
    /\ SpecFanout
    /\ WF_vars(LeaderSentinel)
    /\ \A f \in Followers : WF_vars(FollowerRecv(f))

(***************************************************************************)
(* get_state / load_state on a newly constructed sequencer                 *)
(***************************************************************************)
\* get_state(): the dictionary is persisted
GetState ==
    /\ pc = "start"
    /\ snapshot' = get_state(state)
    /\ UNCHANGED << env, ops, auxVars, seqVars, wpc, fanVars >>

\* load_state(snapshot), lines 130-145
LoadState ==
    /\ pc = "start"
    /\ state' = load_state(env, state, snapshot)
    /\ UNCHANGED << env, ops, auxVars, pc, stack, opIdx, completed, inflight, out, responses,
                    emitted, reports, failure, should_exit, wpc, fanVars, snapshot >>

\* dictionaries a previous run may have persisted, for this trial or another
Snapshots ==
    { get_state(SavableState(t, c, b, r, s, v)) :
        t \in TrialIds, c \in 0..MaxSnapshotBatch, b \in 0..MaxSnapshotBatch,
        r \in NumInputs, s \in {0, 1}, v \in 0..MaxSnapshotBatch }

RestoreRuns == ConfigsOf({Length("batches", 0)}, {Length("batches", 0)}, {10}) \X { <<>> }

InitRestore ==
    /\ \E run \in RestoreRuns, t \in TrialIds,
          v \in {None} \cup {Some(b) : b \in 0..MaxSnapshotBatch} :
            /\ env = [MakeEnv(run[1]) EXCEPT !.trial_id = t, !.val_from_previous_run = v]
            /\ ops = run[2]
    /\ state = FreshState(env.trial_id)
    /\ snapshot \in {d \in Snapshots : d.last_ckpt <= d.latest_batch
                                        /\ d.last_val <= d.latest_batch}
    /\ best_validation_before = None
    /\ conv = NoCall
    /\ pc = "start"
    /\ stack = << >>
    /\ opIdx = 0
    /\ completed = << >>
    /\ inflight = None
    /\ out = None
    /\ responses = 0
    /\ emitted = << >>
    /\ reports = << >>
    /\ failure = "none"
    /\ should_exit = ""
    /\ wpc = "direct"
    /\ fpc = [f \in Followers |-> "off"]
    /\ bcast = [f \in Followers |-> << >>]
    /\ gathered = {}
    /\ sent = << >>
    /\ received = [f \in Followers |-> << >>]

NextRestore ==
    \/ GetState
    \/ LoadState

SpecRestore == InitRestore /\ [][NextRestore]_vars

(***************************************************************************)
(* A sequencer that is constructed, given the state of a checkpoint by     *)
(* load_state, and then iterated                                           *)
(***************************************************************************)
\* dictionaries get_state() returned in a run of this trial or of another:
\* fresh counters, or those after one step
ResumeSnapshots ==
    { get_state(SavableState(t, cv[1], b, IF b = 0 THEN Some(0) ELSE Some(4),
                             IF b = 0 THEN 0 ELSE 1, cv[2])) :
        t \in TrialIds, b \in 0..MaxSnapshotBatch,
        cv \in (0..MaxSnapshotBatch) \X (0..MaxSnapshotBatch) }

ResumeRuns ==
    { c \in ConfigsOf({Length("batches", 2)}, {Length("batches", 0)}, {10}) :
        c.ckpt_policy = "all" }
        \X { << Length("BATCHES", 1), Length("BATCHES", 4) >> }

InitResumed ==
    /\ InitSequencer(ResumeRuns)
    /\ wpc = "direct"
    /\ fpc = [f \in Followers |-> "off"]
    /\ bcast = [f \in Followers |-> << >>]
    /\ gathered = {}
    /\ sent = << >>
    /\ received = [f \in Followers |-> << >>]

\* a dictionary is read from the checkpoint being restored
ReadSnapshot ==
    /\ pc = "start"
    /\ snapshot = get_state(FreshState(env.trial_id))
    /\ state = FreshState(env.trial_id)
    /\ snapshot' \in { d \in ResumeSnapshots : /\ d.last_ckpt <= d.latest_batch
                                                /\ d.last_val <= d.latest_batch
                                                /\ d # snapshot }
    /\ UNCHANGED << env, ops, seqVars, wpc, fanVars, auxVars >>

NextResumed ==
    \/ ReadSnapshot
    \/ LoadState
    \/ Next

SpecResumed == InitResumed /\ [][NextResumed]_vars

(***************************************************************************)
(* as_batches called on its own, as __init__ calls it once                 *)
(* records_per_epoch and global_batch_size are set (lines 114-121)         *)
(***************************************************************************)
BatchSizes == {-1, 0, 2, 4, 10}
RecordsPerEpoch == {None, Some(4), Some(100)}
BatchesArgs == {None, Some(0), Some(10)}
RecordsArgs == {None, Some(0), Some(1), Some(10)}
EpochsArgs == {None, Some(2)}

\* as_batches(batches=..., records=..., epochs=...) returns or raises
AsBatches ==
    /\ conv.returned = None
    /\ conv.raised = ""
    /\ conv' = IF as_batches_raises(env, conv.batches, conv.records, conv.epochs)
               THEN [conv EXCEPT !.raised = as_batches_error(env, conv.batches,
                                                             conv.records, conv.epochs)]
               ELSE [conv EXCEPT !.returned = Some(as_batches(env, conv.batches,
                                                              conv.records, conv.epochs))]
    /\ UNCHANGED << env, ops, seqVars, wpc, fanVars, snapshot, best_validation_before >>

InitConvert ==
    /\ env \in [global_batch_size : BatchSizes, records_per_epoch : RecordsPerEpoch]
    /\ \E b \in BatchesArgs, r \in RecordsArgs, e \in EpochsArgs :
            conv = Call(b, r, e, None, "")
    /\ ops = << >>
    /\ state = FreshState(1)
    /\ snapshot = get_state(state)
    /\ best_validation_before = None
    /\ pc = "init"
    /\ stack = << >>
    /\ opIdx = 0
    /\ completed = << >>
    /\ inflight = None
    /\ out = None
    /\ responses = 0
    /\ emitted = << >>
    /\ reports = << >>
    /\ failure = "none"
    /\ should_exit = ""
    /\ wpc = "direct"
    /\ fpc = [f \in Followers |-> "off"]
    /\ bcast = [f \in Followers |-> << >>]
    /\ gathered = {}
    /\ sent = << >>
    /\ received = [f \in Followers |-> << >>]

NextConvert == AsBatches

SpecConvert == InitConvert /\ [][NextConvert]_vars

(***************************************************************************)
(* Properties                                                              *)
(***************************************************************************)
IsPrefix(s, t) == Len(s) <= Len(t) /\ \A i \in 1..Len(s) : s[i] = t[i]

Train(s_id, num_batches, at) == Workload("RUN_STEP", s_id, num_batches, at)
Validate(s_id, at) == Workload("COMPUTE_VALIDATION_METRICS", s_id, 0, at)
Checkpoint(s_id, at) == Workload("CHECKPOINT_MODEL", s_id, 0, at)

\* the generator returned without ShouldExit and without an exception
FinishedCleanly == pc = "done" /\ should_exit = "" /\ failure = "none"

\* C1: from a fresh state, every reachable state, abort paths included, has
\* last_ckpt <= latest_batch and last_val <= latest_batch.
C1_CountersBehindLatest ==
    /\ state.last_ckpt <= state.latest_batch
    /\ state.last_val <= state.latest_batch

C1_Witness ==
    /\ pc = "done"
    /\ should_exit # ""
    /\ 0 < state.last_val
    /\ state.last_val < state.latest_batch
    /\ state.last_ckpt = state.latest_batch

\* C2: for every operation feed, op.complete() is called exactly once on each
\* operation before the next one is taken from the feed, at most once on the
\* active one, and the assertion of line 415 never fails.
C2_CompletedOnceNoAssert ==
    /\ failure # OpNeverCompleted
    /\ \A i \in 1..Len(ops) :
          /\ Len(completed[i]) <= 1
          /\ (i < opIdx => Len(completed[i]) = 1)

\* the scenario of C3 and C4: one operation of 10 batches, no validation
\* period, scheduling unit 10, no initial validation
Scenario(ckpt_period) ==
    /\ ops = << Length("BATCHES", 10) >>
    /\ env.min_val_period_batches = MaxSize
    /\ env.min_ckpt_period_batches = ckpt_period
    /\ env.scheduling_unit = 10
    /\ ~env.want_initial_val

ScenarioC3 == << Train(1, 10, 0), Checkpoint(1, 10), Validate(1, 10) >>

\* the workloads of a run that has not raised ShouldExit
C3_Sequence ==
    Scenario(MaxSize) /\ should_exit = "" =>
        /\ IsPrefix(emitted, ScenarioC3)
        /\ (pc = "done" /\ failure = "none" =>
                emitted = ScenarioC3 /\ Len(completed[1]) = 1)

\* the metric op.complete() is given when the Validate is resumed
C3_Metric ==
    /\ Scenario(MaxSize)
    /\ pc = "validate_yield"
    /\ out # None
    /\ pc' = "op_assert"
    => completed'[1] = << out[1].metric >>

\* C3: in the scenario with both periods disabled, a run without exit reason
\* or preemption emits exactly Train(10), Checkpoint, Validate, and the
\* operation is completed once, with the metric of that Validate's response.
C3_TrainCheckpointValidate == [] C3_Sequence /\ [][C3_Metric]_vars

C3_Witness ==
    /\ Scenario(MaxSize)
    /\ FinishedCleanly
    /\ emitted = ScenarioC3
    /\ completed[1] = << 2 >>

ScenarioC4 ==
    << Train(1, 5, 0), Checkpoint(1, 5), Train(2, 5, 5), Checkpoint(2, 10),
       Validate(2, 10) >>

AbortPcs == {"except", "checkpoint_yield", "done", "crashed"}

\* a step that resumes such a Train, and a step after it
C5_Step ==
    /\ (/\ pc = "train_yield"
        /\ out # None
        /\ out[1].exited_reason = "INVALID_HP"
        /\ pc' \notin {"train_yield", "crashed"})
       => /\ pc' = "except"
          /\ should_exit' = "train:INVALID_HP"
          /\ state'.latest_batch = state.latest_batch
          /\ state'.step_id = state.step_id
          /\ state'.total_records = state.total_records
          /\ state'.last_val = state.last_val
          /\ emitted' = emitted
    /\ should_exit = "train:INVALID_HP"
       => /\ pc \in AbortPcs /\ pc' \in AbortPcs
          /\ should_exit' = should_exit
          /\ state'.latest_batch = state.latest_batch
          /\ (pc = "except" =>
                IF state.last_ckpt # state.latest_batch
                THEN /\ pc' = "checkpoint_yield"
                     /\ emitted' = Append(emitted,
                                          Checkpoint(state.step_id, state.latest_batch))
                ELSE pc' = "done" /\ emitted' = emitted)
          /\ (pc # "except" => emitted' = emitted)
          /\ (pc = "checkpoint_yield" /\ pc' # pc => pc' \in {"done", "crashed"})
          /\ (pc = "done" => pc' = "done")

\* C5: a Train result with exited_reason INVALID_HP leaves latest_batch,
\* step_id, total_records and last_val as they were; afterwards no Train or
\* Validate is emitted, one final Checkpoint is emitted if and only if
\* last_ckpt # latest_batch, and the generator ends.
C5_InvalidHpTrain == [][C5_Step]_vars

C5_Witness ==
    /\ should_exit = "train:INVALID_HP"
    /\ pc = "done"
    /\ state.latest_batch > 0
    /\ emitted[Len(emitted)] = Checkpoint(state.step_id, state.latest_batch)
    /\ emitted[Len(emitted) - 1].kind = "RUN_STEP"

\* what the chief broadcasts over a whole run: each workload, then None
Broadcasts(wklds) == [i \in 1..Len(wklds) |-> Some(wklds[i])] \o << None >>

\* C6: every worker receives, in the chief's order, exactly the workloads the
\* chief's sequencer yields; when the chief's generator has finished, the
\* broadcasts are all of them followed by None, and a worker that left its
\* loop received exactly that, None last.
C6_SameSequence ==
    /\ IsPrefix(sent, Broadcasts(emitted))
    /\ \A f \in Followers : IsPrefix(received[f], sent)
    /\ (wpc = "end" => sent = Broadcasts(emitted))
    /\ \A f \in Followers :
          /\ (fpc[f] = "end" => received[f] = Broadcasts(emitted))
          /\ (fpc[f] # "end" =>
                \A i \in 1..Len(received[f]) : received[f][i] # None)

C6_Witness ==
    /\ wpc = "end"
    /\ \A f \in Followers : fpc[f] = "end" /\ Len(received[f]) >= 4
    /\ should_exit = ""

\* workloads whose local execution a process has begun, and has finished
BegunLeader == Len(SelectSeq(sent, LAMBDA v : v # None))
FinishedLeader == BegunLeader - (IF wpc = "yield" THEN 1 ELSE 0)
BegunFollower(f) == Len(SelectSeq(received[f], LAMBDA v : v # None))
FinishedFollower(f) == BegunFollower(f) - (IF fpc[f] = "yield" THEN 1 ELSE 0)

\* C7: no process, chief or worker, has begun workload N+1 while some
\* process has not finished workload N.
C7_LockStep ==
    LET begun == {BegunLeader} \cup {BegunFollower(f) : f \in Followers}
        finished == {FinishedLeader} \cup {FinishedFollower(f) : f \in Followers}
    IN  \A b \in begun, d \in finished : b <= d + 1

C7_Witness ==
    /\ BegunLeader = 2
    /\ wpc = "gather"
    /\ \E f, g \in Followers :
          /\ fpc[f] = "yield" /\ BegunFollower(f) = 2
          /\ fpc[g] = "recv" /\ BegunFollower(g) = 1

\* at most one workload is in flight: a workload is yielded only when none
\* is in flight or the one in flight has been answered
C8_OneInFlight ==
    emitted' # emitted =>
        /\ Len(emitted') = Len(emitted) + 1
        /\ (inflight = None \/ out # None)
        /\ inflight' = Some(emitted'[Len(emitted')])

\* resuming the generator with no response supplied fails the assertion of
\* line 38
C8_ResumeUnanswered ==
    pc \in YieldPcs /\ out = None /\ out' = None /\ pc' # pc =>
        pc' = "crashed" /\ failure' # "none" /\ emitted' = emitted

\* a step of respond() while a response is already stored: it is no resume
\* (a resume yields, or leaves responses and failure alone)
SecondResponse ==
    /\ pc \in YieldPcs
    /\ out # None
    /\ emitted' = emitted
    /\ (responses' # responses \/ failure' # failure)

\* C8 as stated: the handshake is single-shot; resuming without a response
\* and supplying a second response for the same yield both end in a fatal
\* assertion.
C8_Original ==
    [][/\ C8_OneInFlight
       /\ C8_ResumeUnanswered
       /\ (SecondResponse => pc' = "crashed")]_vars

\* C8, amended: at most one workload is in flight and resuming without a
\* response fails the assertion of line 38, but a second response for the
\* same yield is accepted like the first: respond() stores it in place of
\* the earlier one, and asserts only that it is no Skipped.
C8_Amended ==
    [][/\ C8_OneInFlight
       /\ C8_ResumeUnanswered
       /\ (SecondResponse =>
              IF failure' # failure
              THEN failure' = SkippedResponse
              ELSE /\ pc' = pc
                   /\ out' # None
                   /\ responses' = responses + 1
                   /\ inflight' = inflight)]_vars

C8_Witness ==
    /\ pc = "train_yield"
    /\ responses = 2
    /\ out # None
    /\ out[1].exited_reason = "USER_CANCELED"
    /\ failure = "none"

\* C9: load_state leaves every field unchanged when the dictionary's
\* trial_id is not the sequencer's; otherwise the state is the dictionary,
\* field by field, except that last_val is latest_batch exactly when the
\* dictionary's latest_batch is val_from_previous_run.
C9_LoadState ==
    [][snapshot' = snapshot =>
          IF snapshot.trial_id # env.trial_id
          THEN state' = state
          ELSE /\ state'.trial_id = snapshot.trial_id
               /\ state'.last_ckpt = snapshot.last_ckpt
               /\ state'.latest_batch = snapshot.latest_batch
               /\ state'.total_records = snapshot.total_records
               /\ state'.step_id = snapshot.step_id
               /\ state'.last_val =
                     IF env.val_from_previous_run = Some(snapshot.latest_batch)
                     THEN snapshot.latest_batch
                     ELSE snapshot.last_val]_vars

C9_Witness ==
    /\ snapshot.trial_id = env.trial_id
    /\ snapshot.last_val < snapshot.latest_batch
    /\ state.latest_batch = snapshot.latest_batch
    /\ state.last_val = state.latest_batch
    /\ state.step_id = 1

AbortCauses ==
    {f \o ":" \o c : f \in {"train", "validate", "checkpoint"},
                     c \in {"INVALID_HP", "USER_CANCELED", "preempted"}}

\* a step that raises ShouldExit, a step after it, a step when done
C10_Step ==
    /\ (pc' = "except" /\ pc # "except" => should_exit' \in AbortCauses)
    /\ should_exit # ""
       => /\ pc \in AbortPcs /\ pc' \in AbortPcs
          /\ should_exit' = should_exit
          /\ (pc = "except" =>
                IF state.last_ckpt # state.latest_batch
                THEN /\ pc' = "checkpoint_yield"
                     /\ emitted' = Append(emitted,
                                          Checkpoint(state.step_id, state.latest_batch))
                ELSE pc' = "done" /\ emitted' = emitted)
          /\ (pc # "except" => emitted' = emitted)
          /\ (pc = "checkpoint_yield" /\ pc' # pc =>
                \/ pc' = "crashed"
                \/ /\ pc' = "done"
                   /\ out # None
                   /\ reports' = Append(reports, "report_checkpoint"))
    /\ (pc = "done" => pc' = "done" /\ emitted' = emitted)

\* C10: once ShouldExit is raised (INVALID_HP, USER_CANCELED or a preemption
\* poll), the rest of the run is one final Checkpoint if last_ckpt #
\* latest_batch and nothing otherwise; the result of the final Checkpoint is
\* only reported, whatever exited_reason it carries: no early exit report, no
\* preemption poll, no further workload; nothing is yielded once the
\* generator is done.
C10_AbortPath == [][C10_Step]_vars

C10_Witness ==
    /\ pc = "done"
    /\ should_exit = "validate:preempted"
    /\ emitted[Len(emitted)] = Checkpoint(state.step_id, state.latest_batch)
    /\ reports[Len(reports)] = "report_checkpoint"
    /\ reports[Len(reports) - 1] = "should_preempt"

\* n is the quotient of total by size, raised to 1: stated by multiplication
QuotientAtLeastOne(n, total, size) ==
    /\ n >= 1
    /\ (total >= size => n * size <= total /\ total < (n + 1) * size)
    /\ (total < size => n = 1)

\* C11: as_batches raises unless exactly one of batches, records, epochs is
\* given; batches is returned as it is; records gives the whole quotient of
\* records by global_batch_size and epochs that of epochs * records_per_epoch,
\* each at least 1 (10 records of batch size 4 are 2 batches, 2 epochs of 100
\* records and batch size 10 are 20); records and epochs raise when
\* global_batch_size is not positive, epochs also without records_per_epoch.
C11_AsBatches ==
    LET given == {k \in {"batches", "records", "epochs"} : conv[k] # None}
        size == env.global_batch_size
    IN  conv.returned # None \/ conv.raised # "" =>
          /\ (conv.returned = None) # (conv.raised = "")
          /\ (Cardinality(given) # 1 => conv.raised # "")
          /\ (given = {"batches"} => conv.returned = conv.batches)
          /\ (given = {"records"} =>
                IF size <= 0
                THEN conv.raised # ""
                ELSE /\ conv.returned # None
                     /\ QuotientAtLeastOne(conv.returned[1], conv.records[1], size))
          /\ (given = {"epochs"} =>
                IF size <= 0 \/ env.records_per_epoch = None
                THEN conv.raised # ""
                ELSE /\ conv.returned # None
                     /\ QuotientAtLeastOne(conv.returned[1],
                                           conv.epochs[1] * env.records_per_epoch[1], size))
          /\ (given = {"batches"} /\ conv.batches = Some(10) => conv.returned = Some(10))
          /\ (given = {"records"} /\ conv.records = Some(10) /\ size = 4
                => conv.returned = Some(2))
          /\ (given = {"epochs"} /\ conv.epochs = Some(2) /\ size = 10
                /\ env.records_per_epoch = Some(100) => conv.returned = Some(20))

C11_Witness ==
    /\ conv.records = Some(1)
    /\ conv.batches = None
    /\ conv.epochs = None
    /\ env.global_batch_size = 4
    /\ conv.returned = Some(1)

\* the cadences as the specification words them
ValidationDue == state.latest_batch >= state.last_val + env.min_val_period_batches
CheckpointDue == state.latest_batch >= state.last_ckpt + env.min_ckpt_period_batches

CheckpointedAt(b) ==
    \E i \in 1..Len(emitted) : /\ emitted[i].kind = "CHECKPOINT_MODEL"
                               /\ emitted[i].total_batches_processed = b

Emits(wkld) == emitted' = Append(emitted, wkld)

\* the steps of lines 386, 390 and 394
C12_Step ==
    /\ pc = "loop_val" =>
          /\ batches_until_op_complete(env, state, CurOp) > 0
          /\ IF ValidationDue
             THEN Emits(Validate(state.step_id, state.latest_batch))
             ELSE emitted' = emitted /\ pc' = "loop_ckpt"
          /\ (ValidationDue /\ CheckpointDue => ~CheckpointedAt(state.latest_batch))
    /\ pc = "loop_ckpt" =>
          /\ ~ValidationDue
          /\ IF CheckpointDue
             THEN Emits(Checkpoint(state.step_id, state.latest_batch))
             ELSE emitted' = emitted /\ pc' = "loop_train"
    /\ pc = "loop_train" =>
          /\ ~ValidationDue
          /\ ~CheckpointDue
          /\ Len(emitted') = Len(emitted) + 1
          /\ emitted'[Len(emitted')].kind = "RUN_STEP"
    /\ (emitted' # emitted /\ emitted'[Len(emitted')].kind = "RUN_STEP"
            => pc = "loop_train")

\* C12: inside an operation a Validate is emitted at line 386 exactly when
\* latest_batch >= last_val + min_val_period_batches, a Checkpoint at line 390
\* exactly when latest_batch >= last_ckpt + min_ckpt_period_batches; when both
\* are due at one latest_batch the Validate comes first, no Checkpoint of that
\* batch having been emitted, and a Train is emitted only at line 394, with
\* neither due any more.
C12_DueCadence == [][C12_Step]_vars

C12_Witness ==
    /\ env.ckpt_policy = "none"
    /\ \E i \in 1..(Len(emitted) - 2) :
          /\ emitted[i].kind = "COMPUTE_VALIDATION_METRICS"
          /\ emitted[i + 1].kind = "CHECKPOINT_MODEL"
          /\ emitted[i + 2].kind = "RUN_STEP"
          /\ emitted[i].total_batches_processed = 2
          /\ emitted[i + 2].total_batches_processed = 2

\* the steps of lines 409-413 and the step that calls op.complete()
C13_Step ==
    /\ pc = "op_done_ckpt" =>
          /\ batches_until_op_complete(env, state, CurOp) <= 0
          /\ completed' = completed
          /\ IF state.last_ckpt # state.latest_batch
             THEN Emits(Checkpoint(state.step_id, state.latest_batch))
             ELSE emitted' = emitted /\ pc' = "op_done_val"
    /\ pc = "op_done_val" =>
          /\ state.last_ckpt = state.latest_batch
          /\ inflight = None
          /\ completed' = completed
          /\ IF state.last_val # state.latest_batch
             THEN Emits(Validate(state.step_id, state.latest_batch))
             ELSE emitted' = emitted /\ pc' = "op_assert"
    /\ \A i \in 1..Len(ops) :
          completed'[i] # completed[i] =>
             /\ i = opIdx
             /\ pc = "validate_yield"
             /\ inflight = Some(Validate(state.step_id, state.latest_batch))
             /\ emitted[Len(emitted)] = inflight[1]
             /\ state.last_ckpt = state.latest_batch
             /\ reports # << >>
             /\ reports[Len(reports)] \in {"report_checkpoint", "should_preempt"}
             /\ completed'[i] = Append(completed[i], out[1].metric)

\* C13: when the target of an operation is reached, line 409 emits a
\* Checkpoint if the checkpoint is not current, and only after its result is
\* applied line 412 emits a Validate if the validation is not current; an
\* operation is completed only by the result of such a Validate, with the
\* checkpoint current and no Checkpoint in flight.
C13_CheckpointThenValidate == [][C13_Step]_vars

C13_Witness ==
    /\ pc = "op_assert"
    /\ opIdx = 2
    /\ Len(completed[2]) = 1
    /\ Len(emitted) >= 3
    /\ emitted[Len(emitted)] = Validate(state.step_id, state.latest_batch)
    /\ emitted[Len(emitted) - 1] = Checkpoint(state.step_id, state.latest_batch)
    /\ emitted[Len(emitted) - 2].kind = "RUN_STEP"

\* the target of the operation in batches
Target(op) == batches_until_op_complete(env, state, op) + state.latest_batch

\* a step that yields a Train, and the step that applies its result
C14_Step ==
    /\ (Len(emitted') = Len(emitted) + 1 /\ emitted'[Len(emitted')].kind = "RUN_STEP") =>
          LET wkld == emitted'[Len(emitted')]
              n == wkld.num_batches
              limits == { state.last_ckpt + env.min_ckpt_period_batches - state.latest_batch,
                          state.last_val + env.min_val_period_batches - state.latest_batch,
                          Target(CurOp) - state.latest_batch,
                          env.scheduling_unit }
          IN  /\ n >= 1
              /\ wkld.total_batches_processed = state.latest_batch
              /\ state.latest_batch + n <= Target(CurOp)
              /\ IF \A x \in limits : x >= 1
                 THEN n \in limits /\ \A x \in limits : n <= x
                 ELSE n = 1
    /\ (pc = "train_yield" /\ state'.latest_batch # state.latest_batch) =>
          /\ state'.latest_batch = state.latest_batch + inflight[1].num_batches
          /\ state'.latest_batch <= Target(CurOp)

\* C14: every Train is yielded with num_batches the least of the batches
\* until the checkpoint is due, until the validation is due, until the target
\* of the operation, and the scheduling unit, or 1 if that is below 1; it is
\* at least 1, and its result never takes latest_batch past the target.
C14_TrainSize == [][C14_Step]_vars

C14_Witness ==
    /\ pc = "while"
    /\ env.scheduling_unit = 0
    /\ ops[opIdx].unit = "EPOCHS"
    /\ state.latest_batch = Target(CurOp)
    /\ emitted[Len(emitted)] = Train(state.step_id, 1, state.latest_batch - 1)

\* a step that resumes a Train answered USER_CANCELED, and a step after it
C15_Step ==
    /\ (/\ pc = "train_yield"
        /\ out # None
        /\ out[1].exited_reason = "USER_CANCELED"
        /\ pc' \notin {"train_yield", "crashed"})
       => /\ pc' = "except"
          /\ should_exit' = "train:USER_CANCELED"
          /\ state'.latest_batch = state.latest_batch + inflight[1].num_batches
          /\ state'.step_id = state.step_id + 1
          /\ state'.total_records =
                IF out[1].num_inputs = None \/ state.total_records = None
                THEN None
                ELSE Some(state.total_records[1] + out[1].num_inputs[1])
          /\ state'.last_val = state.last_val
          /\ state'.last_ckpt = state.last_ckpt
          /\ reports' = reports \o << "report_training_metrics", "report_progress" >>
          /\ emitted' = emitted
    /\ should_exit = "train:USER_CANCELED"
       => /\ pc \in AbortPcs /\ pc' \in AbortPcs
          /\ should_exit' = should_exit
          /\ state'.latest_batch = state.latest_batch
          /\ (pc = "except" =>
                /\ state.last_ckpt < state.latest_batch
                /\ pc' = "checkpoint_yield"
                /\ Emits(Checkpoint(state.step_id, state.latest_batch)))
          /\ (pc # "except" => emitted' = emitted)
          /\ (pc = "checkpoint_yield" /\ pc' # pc => pc' \in {"done", "crashed"})
          /\ (pc = "done" => pc' = "done")

\* C15: a Train result with exited_reason USER_CANCELED is recorded first:
\* latest_batch grows by num_batches, step_id by 1, total_records by
\* num_inputs or becomes None, the training metrics and the progress are
\* reported; then ShouldExit is raised, one final Checkpoint of the new
\* latest_batch is emitted, and nothing after it.
C15_UserCanceledTrain == [][C15_Step]_vars

C15_Witness ==
    /\ pc = "done"
    /\ should_exit = "train:USER_CANCELED"
    /\ state.step_id = 2
    /\ state.total_records # None
    /\ emitted[Len(emitted)] = Checkpoint(2, state.latest_batch)
    /\ emitted[Len(emitted) - 1].kind = "RUN_STEP"
    /\ emitted[Len(emitted) - 1].total_batches_processed < state.latest_batch

\* the step that applies a Validate result without exited_reason
C16_Step ==
    (/\ pc = "validate_yield"
     /\ out # None
     /\ out[1].exited_reason = "None"
     /\ pc' \notin {"validate_yield", "crashed"})
    => LET metric == out[1].metric
           before == best_validation_before'
           asked == \E k \in (Len(reports) + 1)..(Len(reports') - 1) :
                       /\ reports'[k] = "get_experiment_best_validation"
                       /\ reports'[k + 1] = "report_validation_metrics"
           better == \/ before = None
                     \/ /\ before # None
                        /\ IF env.smaller_is_better
                           THEN metric < before[1]
                           ELSE metric > before[1]
           nested == /\ state.last_ckpt # state.latest_batch
                     /\ \/ env.ckpt_policy = "all"
                        \/ env.ckpt_policy = "best" /\ asked /\ better
       IN  IF nested
           THEN /\ Emits(Checkpoint(state.step_id, state.latest_batch))
                /\ pc' = "checkpoint_yield"
                /\ Len(stack') = Len(stack) + 1
                /\ Head(stack').ret = "validate_298"
                /\ ~Head(stack').already_exiting
                /\ should_exit' = ""
           ELSE /\ emitted' = emitted
                /\ pc' \in {Head(stack).ret, "except"}

\* C16: when a Validate result without exited_reason is applied, a Checkpoint
\* is emitted from inside validate, before it returns to the loop, exactly
\* when the checkpoint is not current and the policy is "all", or the policy
\* is "best" and the metric is strictly better, by smaller_is_better, than
\* the best validation asked for before this one was reported, or there was
\* none; otherwise validate emits nothing.
C16_NestedCheckpoint == [][C16_Step]_vars

C16_Witness ==
    /\ pc = "checkpoint_yield"
    /\ Head(stack).ret = "validate_298"
    /\ env.ckpt_policy = "best"
    /\ ~env.smaller_is_better
    /\ best_validation_before = Some(1)
    /\ emitted[Len(emitted) - 1].kind = "COMPUTE_VALIDATION_METRICS"

\* the condition of lines 370-374
InitialValidation ==
    /\ env.want_initial_val
    /\ env.val_from_previous_run = None
    /\ state.latest_batch = 0

\* the first step of the generator, the yield and the resumption of a
\* Validate that is bound to no operation, the first workload
C17_Step ==
    /\ (pc = "start" /\ pc' # pc) =>
          /\ emitted = << >>
          /\ opIdx = 0
          /\ IF InitialValidation
             THEN /\ Emits(Validate(state.step_id, 0))
                  /\ Head(stack').fn = "validate"
                  /\ Head(stack').op = None
             ELSE emitted' = emitted /\ pc' = "next_op"
    /\ (pc' = "validate_yield" /\ pc # pc' /\ Head(stack').op = None) => pc = "start"
    /\ (pc = "validate_yield" /\ Head(stack).op = None /\ pc' # pc) =>
          /\ opIdx = 0
          /\ Len(emitted) = 1
          /\ completed' = completed
          /\ emitted' = emitted
          /\ pc' \in {"next_op", "except", "crashed"}
    /\ (emitted = << >> /\ emitted' # << >>) =>
          (emitted'[1].kind = "COMPUTE_VALIDATION_METRICS" /\ Head(stack').op = None
              <=> pc = "start" /\ InitialValidation)

\* C17: the first workload is a Validate bound to no operation, yielded before
\* any operation is taken from the searcher, exactly when
\* perform_initial_validation is set, no validation is known from a previous
\* run and latest_batch is 0; no other Validate is unbound, and its result
\* completes no operation and brings no Checkpoint.
C17_InitialValidation == [][C17_Step]_vars

C17_Witness ==
    /\ Len(emitted) >= 2
    /\ emitted[1] = Validate(0, 0)
    /\ emitted[2].kind = "RUN_STEP"
    /\ env.ckpt_policy = "all"
    /\ opIdx = 1
    /\ completed[1] = << >>

\* the step that yields a Checkpoint, and the steps while it is in flight
C18_Step ==
    /\ (pc' = "checkpoint_yield" /\ pc # pc') =>
          /\ get_state(state').last_ckpt = get_state(state').latest_batch
          /\ state'.latest_batch = state.latest_batch
          /\ inflight' = Some(Checkpoint(state.step_id, state.latest_batch))
    /\ pc = "checkpoint_yield" =>
          /\ inflight # None
          /\ inflight[1].kind = "CHECKPOINT_MODEL"
          /\ get_state(state).last_ckpt = get_state(state).latest_batch
          /\ get_state(state).latest_batch = inflight[1].total_batches_processed
          /\ state' = state

\* C18: while a Checkpoint is in flight, get_state() has last_ckpt equal to
\* latest_batch, the batch of the workload: last_ckpt is set in the step that
\* yields the Checkpoint, and applying its result changes no field of the
\* state.
C18_LastCkptBeforeYield == [][C18_Step]_vars

C18_Witness ==
    /\ pc = "checkpoint_yield"
    /\ out # None
    /\ Head(stack).ret = "loop_train"
    /\ state.last_ckpt = 2
    /\ state.latest_batch = 2
    /\ state.last_val = 0
    /\ emitted[Len(emitted) - 1].kind = "RUN_STEP"

\* C19: once the chief's sequencer has finished, by the end of the searcher's
\* operations or after ShouldExit, the chief broadcasts None and every worker
\* receives it and leaves its loop: none stays blocked in _zmq_broadcast.
C19_SentinelReachesAll ==
    (pc = "done") ~> (wpc = "end" /\ \A f \in Followers : fpc[f] = "end")

C19_Witness ==
    /\ wpc = "end"
    /\ should_exit # ""
    /\ emitted # << >>
    /\ \A f \in Followers :
          /\ fpc[f] = "end"
          /\ received[f][Len(received[f])] = None
          /\ bcast[f] = << >>

\* C20: from a fresh state latest_batch is never more than
\* min_val_period_batches past last_val nor more than min_ckpt_period_batches
\* past last_ckpt, and no Train is in flight at a latest_batch at which the
\* validation or the checkpoint is due, whatever the scheduling unit.
C20_CadenceNeverOvershot ==
    /\ state.latest_batch - state.last_val <= env.min_val_period_batches
    /\ state.latest_batch - state.last_ckpt <= env.min_ckpt_period_batches
    /\ (pc = "train_yield" =>
          /\ inflight[1].total_batches_processed = state.latest_batch
          /\ state.latest_batch - state.last_val < env.min_val_period_batches
          /\ state.latest_batch - state.last_ckpt < env.min_ckpt_period_batches)

C20_Witness ==
    /\ env.scheduling_unit = 10
    /\ env.min_val_period_batches = 3
    /\ env.min_ckpt_period_batches = 2
    /\ state.latest_batch - state.last_val = 3
    /\ state.latest_batch - state.last_ckpt = 1
    /\ emitted[Len(emitted)] = Train(2, 1, 2)

\* the positions in emitted of the Checkpoint workloads
CheckpointsEmitted == {i \in 1..Len(emitted) : emitted[i].kind = "CHECKPOINT_MODEL"}

\* a step that yields a Checkpoint, from line 391, 296, 410 or 420
C21_Step ==
    (Len(emitted') = Len(emitted) + 1 /\ emitted'[Len(emitted')].kind = "CHECKPOINT_MODEL") =>
        LET wkld == emitted'[Len(emitted')]
        IN  /\ state.last_ckpt # state.latest_batch
            /\ wkld.total_batches_processed = state.latest_batch
            /\ wkld.total_batches_processed > 0
            /\ \A i \in CheckpointsEmitted :
                  emitted[i].total_batches_processed < wkld.total_batches_processed

\* C21: within a run from a fresh state every Checkpoint, whether due by the
\* period, nested in a validation, at the end of an operation or final after
\* ShouldExit, is yielded with last_ckpt # latest_batch and at a
\* total_batches_processed above that of every Checkpoint before it: no two
\* at the same batch, none at batch 0.
C21_OneCheckpointPerBatch == [][C21_Step]_vars

C21_Witness ==
    /\ pc = "done"
    /\ should_exit # ""
    /\ Cardinality(CheckpointsEmitted) >= 3
    /\ Len(emitted) \in CheckpointsEmitted
    /\ \E i \in CheckpointsEmitted :
          /\ i > 1
          /\ emitted[i - 1].kind = "COMPUTE_VALIDATION_METRICS"
          /\ emitted[i - 1].total_batches_processed = emitted[i].total_batches_processed
          /\ env.ckpt_policy = "all"

====
